---- MODULE Spec2Model ----
(***************************************************************************)
(* The OpenImageIO Conan recipe (recipes/openimageio/all/conanfile.py) as  *)
(* a state machine: one recipe instance for one configuration, taken       *)
(* through requirements(), the resolution of its dependencies, validate(), *)
(* source(), generate(), build(), package() and package_info().            *)
(*                                                                         *)
(* A requirement "pkg/version" is the tuple <<pkg, version, th>> (th: the  *)
(* transitive_headers flag); a component requirement "pkg::comp" is the    *)
(* tuple <<pkg, comp>> and a reference to a component of this package is   *)
(* the 1-tuple <<component>>.  A version "a.b.c.d" is <<a, b, c, d>>.      *)
(* The fPIC option takes no part in any method of the recipe and is left   *)
(* out of the option set.                                                  *)
(***************************************************************************)
EXTENDS Naturals, Sequences, FiniteSets, TLC

VARIABLES version, settings, options, dependencies, pc, ran, requires, error,
          tc_variables, cache_variables, deps_properties, folders, cpp_info

vars == <<version, settings, options, dependencies, pc, ran, requires, error,
          tc_variables, cache_variables, deps_properties, folders, cpp_info>>

(***************************************************************************)
(* Bounds                                                                  *)
(***************************************************************************)
\* a profile overrides at most this many of the recipe's default options
MaxChanged == 2

(***************************************************************************)
(* Options                                                                 *)
(***************************************************************************)
BoolOptions ==
    {"shared", "with_libpng", "with_freetype", "with_hdf5", "with_opencolorio",
     "with_opencv", "with_tbb", "with_dicom", "with_ffmpeg", "with_giflib",
     "with_libheif", "with_raw", "with_openjpeg", "with_openvdb", "with_ptex",
     "with_libwebp"}

OptionNames == BoolOptions \cup {"with_libjpeg"}

default_options ==
    [o \in OptionNames |->
        CASE o = "with_libjpeg" -> "libjpeg"
          [] o \in {"shared", "with_opencv", "with_tbb", "with_dicom", "with_raw"} -> FALSE
          [] OTHER -> TRUE]

\* the other value of a two-valued option
OtherValue(o, v) ==
    IF o = "with_libjpeg"
    THEN (IF v = "libjpeg" THEN "libjpeg-turbo" ELSE "libjpeg")
    ELSE ~v

\* the option set opts with option o switched to its other value
Toggle(opts, o) == [opts EXCEPT ![o] = OtherValue(o, opts[o])]

\* default_options with the options of S overridden
Override(S) ==
    [o \in OptionNames |->
        IF o \in S THEN OtherValue(o, default_options[o]) ELSE default_options[o]]

OptionSets ==
    {Override(S) : S \in {T \in SUBSET OptionNames : Cardinality(T) <= MaxChanged}}

(***************************************************************************)
(* Settings and versions                                                   *)
(***************************************************************************)
\* compiler.cppstd; CppStdUnset stands for a profile that does not define it
CppStdUnset == 0

Settings ==
    [os : {"Linux"}, compiler : {"gcc"}, runtime : {"none"},
     cppstd : {CppStdUnset, 11, 14, 17}]
    \cup
    [os : {"Windows"}, compiler : {"msvc"}, runtime : {"static", "dynamic"},
     cppstd : {CppStdUnset, 14, 17}]
    \cup
    [os : {"Windows"}, compiler : {"clang"}, runtime : {"static", "dynamic"},
     cppstd : {CppStdUnset, 14}]

is_msvc(s) == s.compiler = "msvc"

is_msvc_static_runtime(s) == is_msvc(s) /\ s.runtime = "static"

\* versions on both sides of the fmt threshold, differing from it in each part
Versions ==
    {<<2, 4, 17, 0>>, <<2, 4, 16, 1>>}

VersionsWide ==
    {<<a, b, c, d>> : a \in {1, 2, 3}, b \in {3, 4, 5}, c \in {16, 17, 18}, d \in {0, 1}}

RECURSIVE VersionLeqFrom(_, _, _)
VersionLeqFrom(v, w, i) ==
    IF i > Len(v) THEN TRUE
    ELSE IF v[i] < w[i] THEN TRUE
    ELSE IF v[i] > w[i] THEN FALSE
    ELSE VersionLeqFrom(v, w, i + 1)

\* Version(v) >= w, part by part
VersionGeq(v, w) == VersionLeqFrom(w, v, 1)

FmtThreshold == <<2, 4, 17, 0>>

(***************************************************************************)
(* requirements()                                                          *)
(***************************************************************************)
\* one self.requires(...) call, made or skipped
When(cond, req) == IF cond THEN <<req>> ELSE <<>>

\* both backends declared for libjpeg-turbo
JpegRequires_Both(opts) ==
    <<<<"libjpeg", "9e", FALSE>>>>
    \o (IF opts["with_libjpeg"] = "libjpeg-turbo"
        THEN <<<<"libjpeg-turbo", "3.0.2", FALSE>>>> ELSE <<>>)

JpegRequires(opts) ==
    IF opts["with_libjpeg"] = "libjpeg" THEN <<<<"libjpeg", "9e", FALSE>>>>
    ELSE IF opts["with_libjpeg"] = "libjpeg-turbo" THEN <<<<"libjpeg-turbo", "3.0.2", FALSE>>>>
    ELSE <<>>

\* the threshold version itself still gets the older fmt
FmtRequires_Strict(v) ==
    IF VersionGeq(v, FmtThreshold) /\ v # FmtThreshold
    THEN <<<<"fmt", "10.2.1", TRUE>>>>
    ELSE <<<<"fmt", "9.1.0", TRUE>>>>

FmtRequires(v) ==
    IF VersionGeq(v, FmtThreshold)
    THEN <<<<"fmt", "10.2.1", TRUE>>>>
    ELSE <<<<"fmt", "9.1.0", TRUE>>>>

RequiredLibraries(opts, v) ==
    << <<"zlib", "[>=1.2.11 <2]", FALSE>>,
       <<"boost", "1.84.0", FALSE>>,
       <<"libtiff", "4.6.0", FALSE>>,
       <<"imath", "3.1.9", TRUE>>,
       <<"openexr", "3.2.3", FALSE>> >>
    \o JpegRequires(opts)
    \o << <<"pugixml", "1.14", FALSE>>,
          <<"libsquish", "1.15", FALSE>>,
          <<"tsl-robin-map", "1.2.1", FALSE>> >>
    \o FmtRequires(v)

\* ffmpeg also declared whenever opencv is
OptionalLibraries_Coupled(opts) ==
       When(opts["with_libpng"], <<"libpng", "[>=1.6 <2]", FALSE>>)
    \o When(opts["with_freetype"], <<"freetype", "2.13.2", FALSE>>)
    \o When(opts["with_hdf5"], <<"hdf5", "1.14.3", FALSE>>)
    \o When(opts["with_opencolorio"], <<"opencolorio", "2.3.1", FALSE>>)
    \o When(opts["with_opencv"], <<"opencv", "4.8.1", FALSE>>)
    \o When(opts["with_tbb"], <<"onetbb", "2021.10.0", FALSE>>)
    \o When(opts["with_dicom"], <<"dcmtk", "3.6.7", FALSE>>)
    \o When(opts["with_ffmpeg"] \/ opts["with_opencv"], <<"ffmpeg", "6.1", FALSE>>)
    \o When(opts["with_giflib"], <<"giflib", "5.2.1", FALSE>>)
    \o When(opts["with_libheif"], <<"libheif", "1.16.2", FALSE>>)
    \o When(opts["with_raw"], <<"libraw", "0.21.3", FALSE>>)
    \o When(opts["with_openjpeg"], <<"openjpeg", "2.5.2", FALSE>>)
    \o When(opts["with_openvdb"], <<"openvdb", "11.0.0", FALSE>>)
    \o When(opts["with_ptex"], <<"ptex", "2.4.2", FALSE>>)
    \o When(opts["with_libwebp"], <<"libwebp", "1.3.2", FALSE>>)

OptionalLibraries(opts) ==
       When(opts["with_libpng"], <<"libpng", "[>=1.6 <2]", FALSE>>)
    \o When(opts["with_freetype"], <<"freetype", "2.13.2", FALSE>>)
    \o When(opts["with_hdf5"], <<"hdf5", "1.14.3", FALSE>>)
    \o When(opts["with_opencolorio"], <<"opencolorio", "2.3.1", FALSE>>)
    \o When(opts["with_opencv"], <<"opencv", "4.8.1", FALSE>>)
    \o When(opts["with_tbb"], <<"onetbb", "2021.10.0", FALSE>>)
    \o When(opts["with_dicom"], <<"dcmtk", "3.6.7", FALSE>>)
    \o When(opts["with_ffmpeg"], <<"ffmpeg", "6.1", FALSE>>)
    \o When(opts["with_giflib"], <<"giflib", "5.2.1", FALSE>>)
    \o When(opts["with_libheif"], <<"libheif", "1.16.2", FALSE>>)
    \o When(opts["with_raw"], <<"libraw", "0.21.3", FALSE>>)
    \o When(opts["with_openjpeg"], <<"openjpeg", "2.5.2", FALSE>>)
    \o When(opts["with_openvdb"], <<"openvdb", "11.0.0", FALSE>>)
    \o When(opts["with_ptex"], <<"ptex", "2.4.2", FALSE>>)
    \o When(opts["with_libwebp"], <<"libwebp", "1.3.2", FALSE>>)

\* the list of requirements requirements() declares, in order
Requirements(opts, v) == RequiredLibraries(opts, v) \o OptionalLibraries(opts)

requirements ==
    /\ pc = "requirements"
    /\ requires' = Requirements(options, version)
    /\ ran' = ran \cup {"requirements"}
    /\ pc' = "resolve"
    /\ UNCHANGED <<version, settings, options, dependencies, error, tc_variables,
                   cache_variables, deps_properties, folders, cpp_info>>

(***************************************************************************)
(* The options of the resolved dependencies that validate() reads          *)
(***************************************************************************)
\* the value of one option of a dependency: set to True or False, or not an
\* option of that dependency ("unset"); "absent" when the package is not required
DepOptionValues(required) == IF required THEN {"True", "False", "unset"} ELSE {"absent"}

Declared(reqs, pkg) == \E i \in 1..Len(reqs) : reqs[i][1] = pkg

resolve ==
    /\ pc = "resolve"
    /\ \E raw \in DepOptionValues(Declared(requires, "libraw")),
          cv \in DepOptionValues(Declared(requires, "opencv")) :
          dependencies' = [libraw |-> [build_thread_safe |-> raw],
                           opencv |-> [with_ffmpeg |-> cv]]
    /\ pc' = "validate"
    /\ UNCHANGED <<version, settings, options, ran, requires, error, tc_variables,
                   cache_variables, deps_properties, folders, cpp_info>>

\* options.get_safe(name, default) on a dependency's option value
get_safe(value, default) == IF value = "unset" THEN default ELSE value = "True"

(***************************************************************************)
(* validate()                                                              *)
(***************************************************************************)
Ok == "ok"
ErrCppStdUnset == "The compiler.cppstd is not defined for this configuration"
ErrCppStdLow == "Current cppstd is lower than the required C++ standard (14)"
ErrStaticRuntime == "Building shared library with static runtime is not supported!"
ErrLibraw == "openimageio with libraw requires libraw/*:build_thread_safe=True"
ErrOpencv == "openimageio with opencv requires with_ffmpeg to be the same as opencv"

MinCppStd == 14

\* check_min_cppstd(self, 14): the error it raises, or Ok
check_min_cppstd(s, min) ==
    IF s.cppstd = CppStdUnset THEN ErrCppStdUnset
    ELSE IF s.cppstd < min THEN ErrCppStdLow
    ELSE Ok

\* the compiler family is not looked at
StaticRuntimeRule_AnyCompiler(s, opts) ==
    s.runtime = "static" /\ opts["shared"]

StaticRuntimeRule(s, opts) ==
    is_msvc(s) /\ is_msvc_static_runtime(s) /\ opts["shared"]

\* a libraw without the option passes
LibrawRule_DefaultTrue(opts, deps) ==
    opts["with_raw"] /\ ~get_safe(deps.libraw.build_thread_safe, TRUE)

LibrawRule(opts, deps) ==
    opts["with_raw"] /\ ~get_safe(deps.libraw.build_thread_safe, FALSE)

\* only an opencv with ffmpeg against a recipe without it is rejected
OpencvRule_OneWay(opts, deps) ==
    opts["with_opencv"]
    /\ ~opts["with_ffmpeg"] /\ get_safe(deps.opencv.with_ffmpeg, TRUE)

OpencvRule(opts, deps) ==
    opts["with_opencv"]
    /\ opts["with_ffmpeg"] # get_safe(deps.opencv.with_ffmpeg, TRUE)

\* the error validate() raises, or Ok: the first rule that fails raises
Validate(s, opts, deps) ==
    IF check_min_cppstd(s, MinCppStd) # Ok THEN check_min_cppstd(s, MinCppStd)
    ELSE IF StaticRuntimeRule(s, opts) THEN ErrStaticRuntime
    ELSE IF LibrawRule(opts, deps) THEN ErrLibraw
    ELSE IF OpencvRule(opts, deps) THEN ErrOpencv
    ELSE Ok

\* the error is reported and the run goes on
AfterValidate_GoesOn(err) == "source"

\* where the run goes after validate(): a raised ConanInvalidConfiguration ends it
AfterValidate(err) == IF err = Ok THEN "source" ELSE "invalid"

validate ==
    /\ pc = "validate"
    /\ error' = Validate(settings, options, dependencies)
    /\ ran' = ran \cup {"validate"}
    /\ pc' = AfterValidate(error')
    /\ UNCHANGED <<version, settings, options, dependencies, requires, tc_variables,
                   cache_variables, deps_properties, folders, cpp_info>>

(***************************************************************************)
(* source()                                                                *)
(***************************************************************************)
source ==
    /\ pc = "source"
    /\ folders' = [folders EXCEPT !.source = {<<"sources", version>>}]
    /\ ran' = ran \cup {"source"}
    /\ pc' = "generate"
    /\ UNCHANGED <<version, settings, options, dependencies, requires, error,
                   tc_variables, cache_variables, deps_properties, cpp_info>>

(***************************************************************************)
(* generate()                                                              *)
(***************************************************************************)
\* d[k] = v on a dict
Put(d, k, v) == [x \in DOMAIN d \cup {k} |-> IF x = k THEN v ELSE d[x]]

EmptyDict == [x \in {} |-> TRUE]

CMakeOptions ==
    [k \in {"CMAKE_DEBUG_POSTFIX", "OIIO_BUILD_TOOLS", "OIIO_BUILD_TESTS", "BUILD_DOCS",
            "INSTALL_DOCS", "INSTALL_FONTS", "INSTALL_CMAKE_HELPER", "EMBEDPLUGINS",
            "USE_PYTHON", "USE_EXTERNAL_PUGIXML", "BUILD_MISSING_FMT", "BUILD_TESTING",
            "USE_R3DSDK", "USE_NUKE", "USE_OPENGL", "USE_QT", "INTERNALIZE_FMT"} |->
        CASE k = "CMAKE_DEBUG_POSTFIX" -> ""
          [] k \in {"OIIO_BUILD_TOOLS", "EMBEDPLUGINS", "USE_EXTERNAL_PUGIXML"} -> "True"
          [] OTHER -> "False"]

\* the items of options_target_map, in the order of the dict
options_target_map ==
    << <<"with_libpng", "PNG">>, <<"with_freetype", "Freetype">>,
       <<"with_opencolorio", "OpenColorIO">>, <<"with_opencv", "OpenCV">>,
       <<"with_tbb", "TBB">>, <<"with_dicom", "DCMTK">>, <<"with_ffmpeg", "FFmpeg">>,
       <<"with_giflib", "GIF">>, <<"with_libheif", "Libheif">>,
       <<"with_raw", "LibRaw">>, <<"with_openjpeg", "OpenJPEG">>,
       <<"with_openvdb", "OpenVDB">>, <<"with_ptex", "Ptex">>,
       <<"with_libwebp", "WebP">> >>

\* the packages already required by transitives
AlreadyRequired == {"OpenJPEG", "WebP", "FFmpeg"}

RequireKey(cmake_var) == "CMAKE_REQUIRE_FIND_PACKAGE_" \o cmake_var

DisableKey(cmake_var) == "CMAKE_DISABLE_FIND_PACKAGE_" \o cmake_var

\* one iteration of the loop over options_target_map
FindPackageStep(cache, opts, option, cmake_var) ==
    IF opts[option]
    THEN (IF cmake_var \notin AlreadyRequired
          THEN Put(cache, RequireKey(cmake_var), TRUE)
          ELSE cache)
    ELSE Put(cache, DisableKey(cmake_var), TRUE)

RECURSIVE FindPackageLoop(_, _, _, _)
FindPackageLoop(cache, opts, items, i) ==
    IF i > Len(items) THEN cache
    ELSE FindPackageLoop(FindPackageStep(cache, opts, items[i][1], items[i][2]),
                         opts, items, i + 1)

JpegTurboDirective(cache, opts) ==
    IF opts["with_libjpeg"] = "libjpeg"
    THEN Put(cache, DisableKey("libjpeg-turbo"), TRUE)
    ELSE Put(cache, RequireKey("libjpeg-turbo"), TRUE)

\* tc.cache_variables as generate() leaves it
CacheVariables(opts) ==
    JpegTurboDirective(
        FindPackageLoop(
            Put(Put(Put(EmptyDict, RequireKey("fmt"), TRUE), "ROBINMAP_FOUND", TRUE),
                "LIBRAW_FOUND", opts["with_raw"]),
            opts, options_target_map, 1),
        opts)

\* the deps.set_property(...) calls
DepsProperties(opts) ==
    {<<"ffmpeg", "cmake_file_name", "FFmpeg">>,
     <<"ffmpeg", "cmake_additional_variables_prefixes", <<"FFMPEG">>>>,
     <<"libheif", "cmake_file_name", "Libheif">>,
     <<"libheif", "cmake_additional_variables_prefixes", <<"LIBHEIF">>>>,
     <<"libraw", "cmake_file_name", "LibRaw">>,
     <<"libraw", "cmake_additional_variables_prefixes", <<"LibRaw_r">>>>,
     <<"dcmtk", "cmake_target_name", "DCMTK::DCMTK">>,
     <<"ptex", "cmake_file_name", "Ptex">>,
     <<"tsl-robin-map", "cmake_file_name", "Robinmap">>,
     <<"tsl-robin-map", "cmake_additional_variables_prefixes", <<"ROBINMAP">>>>,
     <<"fmt", "cmake_additional_variables_prefixes", <<"FMT">>>>,
     <<"fmt", "cmake_target_name", "fmt::fmt-header-only">>,
     <<"openvdb", "cmake_additional_variables_prefixes", <<"OPENVDB">>>>}
    \cup
    (IF opts["with_libjpeg"] = "libjpeg-turbo"
     THEN {<<"libjpeg-turbo", "cmake_target_aliases", <<"JPEG::JPEG">>>>}
     ELSE {})

generate ==
    /\ pc = "generate"
    /\ tc_variables' = CMakeOptions
    /\ cache_variables' = CacheVariables(options)
    /\ deps_properties' = DepsProperties(options)
    /\ ran' = ran \cup {"generate"}
    /\ pc' = "build"
    /\ UNCHANGED <<version, settings, options, dependencies, requires, error,
                   folders, cpp_info>>

(***************************************************************************)
(* build() and package()                                                   *)
(***************************************************************************)
build ==
    /\ pc = "build"
    /\ folders' = [folders EXCEPT !.build = {"patched", "configured", "built"}]
    /\ ran' = ran \cup {"build"}
    /\ pc' = "package"
    /\ UNCHANGED <<version, settings, options, dependencies, requires, error,
                   tc_variables, cache_variables, deps_properties, cpp_info>>

\* what cmake.install() puts into the package folder
Installed(s) ==
    {"include", "lib", "bin", "share", "lib/pkgconfig", "lib/cmake"}
    \cup (IF s.os = "Windows"
          THEN {"bin/concrt140.dll", "bin/msvcp140.dll", "bin/vcruntime140.dll"}
          ELSE {})

VcFiles == {"bin/concrt140.dll", "bin/msvcp140.dll", "bin/vcruntime140.dll"}

\* the package folder as package() leaves it
Packaged(s) ==
    ((({"licenses"} \cup Installed(s)) \ {"share"})
        \ (IF s.os = "Windows" THEN VcFiles ELSE {}))
      \ {"lib/pkgconfig", "lib/cmake"}

package ==
    /\ pc = "package"
    /\ folders' = [folders EXCEPT !.package = Packaged(settings)]
    /\ ran' = ran \cup {"package"}
    /\ pc' = "package_info"
    /\ UNCHANGED <<version, settings, options, dependencies, requires, error,
                   tc_variables, cache_variables, deps_properties, cpp_info>>

(***************************************************************************)
(* package_info()                                                          *)
(***************************************************************************)
\* name.lower() on the two component names
Lower(name) ==
    CASE name = "OpenImageIO_Util" -> "openimageio_util"
      [] name = "OpenImageIO" -> "openimageio"

conan_comp(name) == "openimageio_" \o Lower(name)

SystemLibs(s) == IF s.os \in {"Linux", "FreeBSD"} THEN <<"dl", "m", "pthread">> ELSE <<>>

\* the component _add_component(name) creates, with the fields package_info() sets
Component(name, reqs, syslibs, defs) ==
    [cmake_target_name |-> "OpenImageIO::" \o name,
     names |-> [cmake_find_package |-> name, cmake_find_package_multi |-> name],
     libs |-> <<name>>,
     requires |-> reqs,
     system_libs |-> syslibs,
     defines |-> defs]

\* onetbb::onetbb is never appended
UtilRequires_NoTbb(opts) ==
    << <<"boost", "filesystem">>,
       <<"boost", "thread">>,
       <<"boost", "system">>,
       <<"boost", "regex">>,
       <<"imath", "imath">>,
       <<"openexr", "openexr">> >>

\* open_image_io_util.requires
UtilRequires(opts) ==
    << <<"boost", "filesystem">>,
       <<"boost", "thread">>,
       <<"boost", "system">>,
       <<"boost", "regex">>,
       <<"imath", "imath">>,
       <<"openexr", "openexr">> >>
    \o When(opts["with_tbb"], <<"onetbb", "onetbb">>)

\* libjpeg::libjpeg appended for either backend
MainJpegRequires_AlwaysLibjpeg(opts) == <<<<"libjpeg", "libjpeg">>>>

MainJpegRequires(opts) ==
    IF opts["with_libjpeg"] = "libjpeg" THEN <<<<"libjpeg", "libjpeg">>>>
    ELSE IF opts["with_libjpeg"] = "libjpeg-turbo" THEN <<<<"libjpeg-turbo", "libjpeg-turbo">>>>
    ELSE <<>>

\* open_image_io.requires
MainRequires(opts) ==
    << <<"openimageio_openimageio_util">>,
       <<"zlib", "zlib">>,
       <<"boost", "thread">>,
       <<"boost", "system">>,
       <<"boost", "container">>,
       <<"boost", "regex">>,
       <<"libtiff", "libtiff">>,
       <<"pugixml", "pugixml">>,
       <<"tsl-robin-map", "tsl-robin-map">>,
       <<"libsquish", "libsquish">>,
       <<"fmt", "fmt">>,
       <<"imath", "imath">>,
       <<"openexr", "openexr">> >>
    \o MainJpegRequires(opts)
    \o When(opts["with_libpng"], <<"libpng", "libpng">>)
    \o When(opts["with_freetype"], <<"freetype", "freetype">>)
    \o When(opts["with_hdf5"], <<"hdf5", "hdf5">>)
    \o When(opts["with_opencolorio"], <<"opencolorio", "opencolorio">>)
    \o When(opts["with_opencv"], <<"opencv", "opencv">>)
    \o When(opts["with_dicom"], <<"dcmtk", "dcmtk">>)
    \o When(opts["with_ffmpeg"], <<"ffmpeg", "ffmpeg">>)
    \o When(opts["with_giflib"], <<"giflib", "giflib">>)
    \o When(opts["with_libheif"], <<"libheif", "libheif">>)
    \o When(opts["with_raw"], <<"libraw", "libraw">>)
    \o When(opts["with_openjpeg"], <<"openjpeg", "openjpeg">>)
    \o When(opts["with_openvdb"], <<"openvdb", "openvdb">>)
    \o When(opts["with_ptex"], <<"ptex", "ptex">>)
    \o When(opts["with_libwebp"], <<"libwebp", "libwebp">>)

MainDefines(opts) == IF ~opts["shared"] THEN <<"OIIO_STATIC_DEFINE">> ELSE <<>>

UtilKey == conan_comp("OpenImageIO_Util")

MainKey == conan_comp("OpenImageIO")

\* self.cpp_info as package_info() leaves it
CppInfo(s, opts) ==
    [properties |-> [cmake_file_name |-> "OpenImageIO", pkg_config_name |-> "OpenImageIO"],
     components |->
        [k \in {UtilKey, MainKey} |->
            IF k = UtilKey
            THEN Component("OpenImageIO_Util", UtilRequires(opts), SystemLibs(s), <<>>)
            ELSE Component("OpenImageIO", MainRequires(opts), SystemLibs(s),
                           MainDefines(opts))]]

NoCppInfo == [properties |-> EmptyDict, components |-> EmptyDict]

package_info ==
    /\ pc = "package_info"
    /\ cpp_info' = CppInfo(settings, options)
    /\ ran' = ran \cup {"package_info"}
    /\ pc' = "done"
    /\ UNCHANGED <<version, settings, options, dependencies, requires, error,
                   tc_variables, cache_variables, deps_properties, folders>>

(***************************************************************************)
(* The recipe's run for one configuration                                  *)
(***************************************************************************)
NoDependencies == [libraw |-> [build_thread_safe |-> "absent"],
                   opencv |-> [with_ffmpeg |-> "absent"]]

InitRecipe ==
    /\ dependencies = NoDependencies
    /\ pc = "requirements"
    /\ ran = {}
    /\ requires = <<>>
    /\ error = Ok
    /\ tc_variables = EmptyDict
    /\ cache_variables = EmptyDict
    /\ deps_properties = {}
    /\ folders = [source |-> {}, build |-> {}, package |-> {}]
    /\ cpp_info = NoCppInfo

Init ==
    /\ version \in Versions
    /\ settings \in Settings
    /\ options \in OptionSets
    /\ InitRecipe

\* every version of VersionsWide, with the default options
InitVersions ==
    /\ version \in VersionsWide
    /\ settings \in Settings
    /\ options = default_options
    /\ InitRecipe

Next ==
    \/ requirements
    \/ resolve
    \/ validate
    \/ source
    \/ generate
    \/ build
    \/ package
    \/ package_info

Spec == Init /\ [][Next]_vars

SpecVersions == InitVersions /\ [][Next]_vars

TypeOK ==
    /\ pc \in {"requirements", "resolve", "validate", "invalid", "source", "generate",
               "build", "package", "package_info", "done"}
    /\ error \in {Ok, ErrCppStdUnset, ErrCppStdLow, ErrStaticRuntime, ErrLibraw, ErrOpencv}
    /\ ran \subseteq {"requirements", "validate", "source", "generate", "build",
                      "package", "package_info"}

(***************************************************************************)
(* Properties                                                              *)
(***************************************************************************)
\* the optional options, each with the package it stands for and the name of
\* that package's CMake find-module
OptionalDependencies ==
    << <<"with_libpng", "libpng", "PNG">>,
       <<"with_freetype", "freetype", "Freetype">>,
       <<"with_hdf5", "hdf5", "HDF5">>,
       <<"with_opencolorio", "opencolorio", "OpenColorIO">>,
       <<"with_opencv", "opencv", "OpenCV">>,
       <<"with_tbb", "onetbb", "TBB">>,
       <<"with_dicom", "dcmtk", "DCMTK">>,
       <<"with_ffmpeg", "ffmpeg", "FFmpeg">>,
       <<"with_giflib", "giflib", "GIF">>,
       <<"with_libheif", "libheif", "Libheif">>,
       <<"with_raw", "libraw", "LibRaw">>,
       <<"with_openjpeg", "openjpeg", "OpenJPEG">>,
       <<"with_openvdb", "openvdb", "OpenVDB">>,
       <<"with_ptex", "ptex", "Ptex">>,
       <<"with_libwebp", "libwebp", "WebP">> >>

OptionalIndex == 1..Len(OptionalDependencies)

\* how many entries of the list reqs name package pkg
Count(reqs, pkg) == Cardinality({i \in 1..Len(reqs) : reqs[i][1] = pkg})

\* the packages the list reqs names
Packages(reqs) == {reqs[i][1] : i \in 1..Len(reqs)}

\* the entries of reqs that do not name package pkg, in order
Without(reqs, pkg) == LET Other(r) == r[1] # pkg IN SelectSeq(reqs, Other)

NoDuplicates(reqs) == \A i, j \in 1..Len(reqs) : reqs[i] = reqs[j] => i = j

\* the pkg::component entries of a component's requirement list
External(reqs) == LET IsExternal(r) == Len(r) = 2 IN SelectSeq(reqs, IsExternal)

UtilComponent == cpp_info.components["openimageio_openimageio_util"]

MainComponent == cpp_info.components["openimageio_openimageio"]

BuildSteps == {"source", "generate", "build", "package", "package_info"}

\* C1: after generate(), every optional dependency has a require directive when
\* its option is true and a disable directive when it is false, except that an
\* enabled OpenJPEG, WebP or FFmpeg has no require directive; no package has both.
C1_EveryOptionalDependencyHasDirective ==
    "generate" \in ran =>
        \A i \in OptionalIndex :
            LET option == OptionalDependencies[i][1]
                pkg == OptionalDependencies[i][3]
                required == RequireKey(pkg) \in DOMAIN cache_variables
                disabled == DisableKey(pkg) \in DOMAIN cache_variables
            IN /\ options[option] /\ pkg \notin {"OpenJPEG", "WebP", "FFmpeg"} => required
               /\ options[option] /\ pkg \in {"OpenJPEG", "WebP", "FFmpeg"} => ~required
               /\ ~options[option] => disabled
               /\ ~(required /\ disabled)

\* the mandatory dependencies are in the Main list, Utility is, and nothing is twice
MainHasMandatory ==
    /\ \E i \in 1..Len(MainComponent.requires) :
          MainComponent.requires[i] = <<"openimageio_openimageio_util">>
    /\ \A pkg \in Packages(RequiredLibraries(options, version)) :
          Count(External(MainComponent.requires), pkg) >= 1
    /\ NoDuplicates(MainComponent.requires)

\* C2 as stated: after package_info(), the Main requirement list holds Utility,
\* every mandatory dependency and every enabled optional dependency, onetbb for
\* with_tbb included, and no entry twice.
C2_MainHasEveryEnabledDependency ==
    pc = "done" =>
        /\ MainHasMandatory
        /\ \A i \in OptionalIndex :
              options[OptionalDependencies[i][1]] =>
                  Count(External(MainComponent.requires), OptionalDependencies[i][2]) >= 1

\* C2 amended: after package_info(), the Main requirement list holds Utility,
\* every mandatory dependency and every enabled optional dependency other than
\* onetbb, and no entry twice; onetbb (with_tbb) is in the Utility list instead,
\* never in the Main list.
C2_MainHasEnabledDependenciesButTbb ==
    pc = "done" =>
        /\ MainHasMandatory
        /\ \A i \in OptionalIndex :
              LET option == OptionalDependencies[i][1]
                  pkg == OptionalDependencies[i][2]
              IN IF option = "with_tbb"
                 THEN /\ Count(External(MainComponent.requires), pkg) = 0
                      /\ options[option] => Count(External(UtilComponent.requires), pkg) = 1
                 ELSE options[option] => Count(External(MainComponent.requires), pkg) >= 1

C2_Witness ==
    /\ pc = "done"
    /\ options["with_tbb"]
    /\ options["with_libjpeg"] = "libjpeg-turbo"
    /\ Count(External(UtilComponent.requires), "onetbb") = 1

\* C3: requirements() declares the package of each optional option once when the
\* option is true and not at all when it is false; switching one option changes
\* the declared packages by that package only and leaves every other entry as it was.
C3_OneOptionOnePackage ==
    "requirements" \in ran =>
        \A i \in OptionalIndex :
            LET option == OptionalDependencies[i][1]
                pkg == OptionalDependencies[i][2]
                toggled == Requirements(Toggle(options, option), version)
            IN /\ Count(requires, pkg) = (IF options[option] THEN 1 ELSE 0)
               /\ Count(toggled, pkg) = (IF options[option] THEN 0 ELSE 1)
               /\ Without(toggled, pkg) = Without(requires, pkg)

C3_Witness ==
    /\ "requirements" \in ran
    /\ options["with_raw"]
    /\ ~options["with_ptex"]
    /\ Count(requires, "libraw") = 1
    /\ Count(requires, "ptex") = 0

\* C4: requirements() declares exactly one of libjpeg and libjpeg-turbo, the one
\* with_libjpeg names; switching with_libjpeg declares the other one instead and
\* the number of declared dependencies stays the same.
C4_ExactlyOneJpegBackend ==
    "requirements" \in ran =>
        LET toggled == Requirements(Toggle(options, "with_libjpeg"), version)
            other == OtherValue("with_libjpeg", options["with_libjpeg"])
        IN /\ Count(requires, "libjpeg") + Count(requires, "libjpeg-turbo") = 1
           /\ Count(requires, options["with_libjpeg"]) = 1
           /\ Count(toggled, "libjpeg") + Count(toggled, "libjpeg-turbo") = 1
           /\ Count(toggled, other) = 1
           /\ Len(toggled) = Len(requires)

C4_Witness ==
    /\ "requirements" \in ran
    /\ options["with_libjpeg"] = "libjpeg-turbo"
    /\ Count(requires, "libjpeg-turbo") = 1

\* the conditions of the validation rules, on the state
CppStdFails == settings.cppstd = CppStdUnset \/ settings.cppstd < 14

SharedOnStaticMsvc ==
    settings.compiler = "msvc" /\ settings.runtime = "static" /\ options["shared"]

LibrawNotThreadSafe ==
    options["with_raw"] /\ dependencies.libraw.build_thread_safe \in {"False", "unset"}

OpencvFfmpegMismatch ==
    /\ options["with_opencv"]
    /\ options["with_ffmpeg"] # (dependencies.opencv.with_ffmpeg \in {"True", "unset"})

\* C5 as stated: validate() aborts with the mismatch error exactly when with_opencv
\* is true and with_ffmpeg differs from opencv's with_ffmpeg (true when opencv
\* has no such option).
C5_MismatchErrorWheneverMismatch ==
    "validate" \in ran => (error = ErrOpencv <=> OpencvFfmpegMismatch)

\* C5 amended: on such a mismatch validate() aborts, and it aborts with the
\* mismatch error exactly when there is a mismatch and none of the rules before
\* it (minimum cppstd, shared with static runtime, libraw thread safety) fails.
C5_MismatchErrorUnlessEarlierRule ==
    "validate" \in ran =>
        /\ OpencvFfmpegMismatch => error # Ok
        /\ error = ErrOpencv <=>
              /\ OpencvFfmpegMismatch
              /\ ~CppStdFails /\ ~SharedOnStaticMsvc /\ ~LibrawNotThreadSafe

C5_Witness ==
    /\ "validate" \in ran
    /\ options["with_opencv"] /\ options["with_ffmpeg"]
    /\ dependencies.opencv.with_ffmpeg = "False"
    /\ error = ErrOpencv

\* C6 as stated: validate() aborts with the thread-safety error exactly when
\* with_raw is true and libraw's build_thread_safe is false or missing.
C6_ThreadSafetyErrorWheneverUnsafe ==
    "validate" \in ran => (error = ErrLibraw <=> LibrawNotThreadSafe)

\* C6 amended: with such a libraw validate() aborts, and it aborts with the
\* thread-safety error exactly when libraw is not thread safe and none of the
\* rules before it (minimum cppstd, shared with static runtime) fails.
C6_ThreadSafetyErrorUnlessEarlierRule ==
    "validate" \in ran =>
        /\ LibrawNotThreadSafe => error # Ok
        /\ error = ErrLibraw <=>
              /\ LibrawNotThreadSafe
              /\ ~CppStdFails /\ ~SharedOnStaticMsvc

C6_Witness ==
    /\ "validate" \in ran
    /\ options["with_raw"]
    /\ dependencies.libraw.build_thread_safe = "unset"
    /\ error = ErrLibraw

\* C7 as stated: validate() aborts with the shared/static-runtime error exactly
\* when the compiler is msvc, its runtime is static and shared is true.
C7_StaticRuntimeErrorExactly ==
    "validate" \in ran => (error = ErrStaticRuntime <=> SharedOnStaticMsvc)

\* C7 amended: with msvc, a static runtime and shared=True validate() aborts, and
\* it aborts with the shared/static-runtime error exactly when moreover the
\* minimum-cppstd check before it passes; otherwise that error is never raised.
C7_StaticRuntimeErrorUnlessCppStd ==
    "validate" \in ran =>
        /\ SharedOnStaticMsvc => error # Ok
        /\ error = ErrStaticRuntime <=> (SharedOnStaticMsvc /\ ~CppStdFails)

C7_Witness ==
    /\ "validate" \in ran
    /\ settings.compiler = "msvc" /\ settings.runtime = "static"
    /\ options["shared"]
    /\ error = ErrStaticRuntime

\* v >= w on versions of four parts, part by part
Geq4(v, w) ==
    \/ v[1] > w[1]
    \/ v[1] = w[1] /\ v[2] > w[2]
    \/ v[1] = w[1] /\ v[2] = w[2] /\ v[3] > w[3]
    \/ v[1] = w[1] /\ v[2] = w[2] /\ v[3] = w[3] /\ v[4] >= w[4]

\* the fmt versions a requirement list declares
FmtVersions(reqs) == {reqs[i][2] : i \in {j \in 1..Len(reqs) : reqs[j][1] = "fmt"}}

\* C8: requirements() declares fmt once, 10.2.1 from version 2.4.17.0 on and 9.1.0
\* below it, and no version above one that gets 10.2.1 gets 9.1.0.
C8_FmtVersionGate ==
    "requirements" \in ran =>
        /\ Count(requires, "fmt") = 1
        /\ FmtVersions(requires) =
              (IF Geq4(version, <<2, 4, 17, 0>>) THEN {"10.2.1"} ELSE {"9.1.0"})
        /\ \A v2 \in VersionsWide :
              Geq4(v2, version) /\ FmtVersions(requires) = {"10.2.1"}
                  => FmtVersions(Requirements(options, v2)) = {"10.2.1"}

C8_Witness ==
    /\ "requirements" \in ran
    /\ version = <<2, 4, 17, 0>>
    /\ FmtVersions(requires) = {"10.2.1"}

NothingBuilt ==
    /\ ran \cap BuildSteps = {}
    /\ tc_variables = EmptyDict
    /\ cache_variables = EmptyDict
    /\ deps_properties = {}
    /\ folders = [source |-> {}, build |-> {}, package |-> {}]
    /\ cpp_info = NoCppInfo

\* C9 as stated: once validate() has raised, no build step has run and neither a
\* dependency manifest nor a toolchain configuration nor a component graph exists.
C9_NothingEmittedWhenInvalid ==
    error # Ok => NothingBuilt /\ requires = <<>>

\* C9 amended: once validate() has raised, no build step runs and neither a
\* toolchain configuration nor a component graph exists; a build step runs only
\* after validate() has passed.  The requirements are declared before validate().
C9_NoBuildStepWhenInvalid ==
    /\ error # Ok => NothingBuilt /\ pc = "invalid"
    /\ ran \cap BuildSteps # {} => "validate" \in ran /\ error = Ok
    /\ "validate" \in ran =>
          "requirements" \in ran /\ requires = Requirements(options, version)

C9_Witness ==
    /\ pc = "invalid"
    /\ error = ErrLibraw
    /\ Len(requires) > 0

\* C10: the packages requirements() declares are the packages the requirement
\* lists of the Utility and Main components refer to.
C10_DeclaredEqualsReferenced ==
    pc = "done" =>
        Packages(requires) =
            Packages(External(UtilComponent.requires))
            \cup Packages(External(MainComponent.requires))

C10_Witness ==
    /\ pc = "done"
    /\ options["with_tbb"] /\ ~options["with_hdf5"]
    /\ "onetbb" \in Packages(requires)

====
